---- MODULE Spec2Model ----
(***************************************************************************)
(* A model of the ray tracer of src/main.go, src/utils.go and the Phong    *)
(* material of src/unnamed/part_000.                                       *)
(*                                                                         *)
(* Numbers.  The program computes in float32.  Here a float32 value v is   *)
(* the integer v * FP (fixed point, FP units per 1.0).  Addition and       *)
(* subtraction are exact; multiplication, division and square root round   *)
(* toward zero to the next representable value, as a float operation       *)
(* rounds to a representable float.  Inputs whose float32 computation is   *)
(* exact (integers, 0.6, 0.8, ...) are computed exactly here as well.      *)
(***************************************************************************)
EXTENDS Integers, Sequences, FiniteSets

VARIABLES
    scene,      \* Scene: objects, lights (and ambiantLight, read by Phong)
    camera,     \* Camera: position, up, at
    image,      \* Image: frameBuffer (0-based), width, height
    pc,         \* position in the running function
    x, y,       \* loop counters of renderFrame
    writes,     \* history of frame-buffer stores: <<x, y, index>> in program order
    png,        \* the encoded picture: (x, y) -> <<R, G, B, A>>, or "none"
    tasks,      \* per-pixel tasks of the parallel pixel loop
    sphere,     \* receiver of isIntersectedByRay
    ray,        \* [ro, rd]: arguments of isIntersectedByRay / renderPixel
    isect,      \* result of isIntersectedByRay: <<hit, t>>
    pixel,      \* result of renderPixel on scene
    calls,      \* indices of the objects whose render was invoked by renderPixel
    lightsAlt,  \* a second light list with the same first light as scene.lights
    pixelAlt    \* result of renderPixel on scene with lights replaced by lightsAlt

vars == <<scene, camera, image, pc, x, y, writes, png, tasks, sphere, ray,
          isect, pixel, calls, lightsAlt, pixelAlt>>

---------------------------------------------------------------------------
(* float32 arithmetic                                                      *)

FP == 1000

F(n) == n * FP

Abs(n) == IF n < 0 THEN -n ELSE n

TruncDiv(n, d) ==
    IF (n >= 0) = (d > 0) THEN Abs(n) \div Abs(d) ELSE -(Abs(n) \div Abs(d))

\* a decimal literal n/d of the source, e.g. Lit(66, 100) for 0.66
Lit(n, d) == TruncDiv(n * FP, d)

FMul(a, b) == TruncDiv(a * b, FP)

FDiv(a, b) == TruncDiv(a * FP, b)

RECURSIVE SqrtSearch(_, _, _)
SqrtSearch(n, lo, hi) ==
    IF lo >= hi THEN lo
    ELSE LET mid == (lo + hi + 1) \div 2
         IN  IF mid * mid <= n THEN SqrtSearch(n, mid, hi)
             ELSE SqrtSearch(n, lo, mid - 1)

\* math.Sqrt of a non-negative value (of a negative one it is NaN: see
\* isIntersectedByRay, the only caller that can pass one)
FSqrt(a) == SqrtSearch(a * FP, 0, IF a * FP < 46340 THEN a * FP ELSE 46340)

\* a plausible slip: the farther of the two roots
max(a, b) == IF b > a THEN b ELSE a

\* min of two float32
min(a, b) == IF b < a THEN b ELSE a

\* uint8(f): the fraction is dropped and the integer reduced to its low
\* byte.  Go leaves the result of an out-of-range conversion to the
\* implementation; it is one fixed function per build, and this is the one
\* the 64-bit targets compute (convert to int64, keep the low byte).
uint8(f) == TruncDiv(f, FP) % 256

---------------------------------------------------------------------------
(* src/utils.go                                                            *)

Vec3f(vx, vy, vz) == [x |-> vx, y |-> vy, z |-> vz]

inverte(v) == Vec3f(-v.x, -v.y, -v.z)

Add(v1, v2) == Vec3f(v1.x + v2.x, v1.y + v2.y, v1.z + v2.z)

mul(v, f) == Vec3f(FMul(v.x, f), FMul(v.y, f), FMul(v.z, f))

Mul(v1, v2) == Vec3f(FMul(v1.x, v2.x), FMul(v1.y, v2.y), FMul(v1.z, v2.z))

Dot(v1, v2) == FMul(v1.x, v2.x) + FMul(v1.y, v2.y) + FMul(v1.z, v2.z)

cross(v1, v2) ==
    Vec3f(FMul(v1.y, v2.z) - FMul(v2.y, v1.z),
          FMul(v1.z, v2.x) - FMul(v2.z, v1.x),
          FMul(v1.x, v2.y) - FMul(v2.x, v1.y))

norme(v) == FSqrt(FMul(v.x, v.x) + FMul(v.y, v.y) + FMul(v.z, v.z))

\* normalize() works in place on its receiver; every caller holds a copy
\* (Go passes Vec3f by value), so it is the same function as normalized()
normalize(v) ==
    LET n == norme(v) IN Vec3f(FDiv(v.x, n), FDiv(v.y, n), FDiv(v.z, n))

normalized(v) ==
    LET n == norme(v) IN Vec3f(FDiv(v.x, n), FDiv(v.y, n), FDiv(v.z, n))

rgbRepresentation(cr, cg, cb) == [r |-> cr, g |-> cg, b |-> cb]

\* the zero value rgbRepresentation{}
Black == rgbRepresentation(0, 0, 0)

---------------------------------------------------------------------------
(* Sphere.isIntersectedByRay, src/main.go                                  *)

Sphere(rad, pos, mat) == [radius |-> rad, position |-> pos, Material |-> mat]

\* L := Add(ro, -s.position)
RayL(s, ro) == Add(ro, Vec3f(-s.position.x, -s.position.y, -s.position.z))

\* delta := b*b - 4.0*a*c
Delta(s, ro, rd) ==
    LET L == RayL(s, ro)
        a == Dot(rd, rd)
        b == FMul(F(2), Dot(rd, L))
        c == Dot(L, L) - FMul(s.radius, s.radius)
    IN  FMul(b, b) - FMul(FMul(F(4), a), c)

\* t0, t1 := (-b -/+ sqrt(delta)) / 2 * a ; t := min(t0, t1)
RootT(s, ro, rd) ==
    LET L == RayL(s, ro)
        a == Dot(rd, rd)
        b == FMul(F(2), Dot(rd, L))
        delta == Delta(s, ro, rd)
        t0 == FMul(FDiv(-b - FSqrt(delta), F(2)), a)
        t1 == FMul(FDiv(-b + FSqrt(delta), F(2)), a)
    IN  min(t0, t1)

\* a plausible slip: a tangent ray counted as a hit
HitTestGe(d) == d >= 0

\* if delta > 0 { return true, t }
HitTest(d) == d > 0

\* The code computes t before it tests delta; when delta <= 0 that t (NaN
\* for delta < 0) is dropped and 0.0 is returned, so it is not computed here.
isIntersectedByRay(s, ro, rd) ==
    IF HitTest(Delta(s, ro, rd)) THEN <<TRUE, RootT(s, ro, rd)>>
    ELSE <<FALSE, 0>>

---------------------------------------------------------------------------
(* Materials: Lambert (src/main.go), Phong (src/unnamed/part_000)         *)

Light(col, pos) == [color |-> col, position |-> pos]

Scene(objs, ls, amb) == [objects |-> objs, lights |-> ls, ambiantLight |-> amb]

Lambert(kd) == [kind |-> "Lambert", kd |-> kd]

Phong(ka, kd, ks, n) == [kind |-> "Phong", ka |-> ka, kd |-> kd, ks |-> ks, n |-> n]

\* a plausible slip: the most recently added light instead of the first
LastLight(sc) == sc.lights[Len(sc.lights)]

\* scene.lights[0] (Go slices start at 0, sequences at 1)
FirstLight(sc) == sc.lights[1]

LambertRender(l, rio, rdi, n, t, sc) ==
    LET omega == Add(rio, mul(rdi, t))
        Li == mul(Mul(l.kd, mul(FirstLight(sc).color, Dot(n, omega))),
                  FDiv(F(1), Lit(314, 100)))
    IN  rgbRepresentation(uint8(FMul(Li.x, F(255))),
                          uint8(FMul(Li.y, F(255))),
                          uint8(FMul(Li.z, F(255))))

\* Sub and Pow are called by Phong.render and defined in no file of src/
Sub(v1, v2) == Vec3f(v1.x - v2.x, v1.y - v2.y, v1.z - v2.z)

RECURSIVE PowN(_, _)
PowN(b, k) == IF k <= 0 THEN F(1) ELSE FMul(b, PowN(b, k - 1))

\* Pow(base, e) for a whole exponent e
Pow(b, e) == PowN(b, TruncDiv(e, FP))

PhongRender(l, rio, rdi, n0, t, sc) ==
    LET Ia == Mul(l.ka, sc.ambiantLight)
        omega == Add(rio, mul(rdi, t))
        vec_intersect_light == normalized(Sub(FirstLight(sc).position, omega))
        L == vec_intersect_light
        n == normalize(n0)
        I == FirstLight(sc).color
        Id == Mul(l.kd, mul(I, Dot(L, n)))
        R == normalized(vec_intersect_light)
        V == normalized(inverte(rdi))
        Is == mul(Mul(l.ks, I), Pow(Dot(R, V), l.n))
        res == Add(Add(Ia, Id), Is)
    IN  rgbRepresentation(uint8(FMul(res.x, F(255))),
                          uint8(FMul(res.y, F(255))),
                          uint8(FMul(res.z, F(255))))

\* dynamic dispatch of Materials.render
MaterialsRender(m, rio, rdi, n, t, sc) ==
    IF m.kind = "Lambert" THEN LambertRender(m, rio, rdi, n, t, sc)
    ELSE PhongRender(m, rio, rdi, n, t, sc)

\* Sphere.render: the normal handed to the material is rdi.inverte()
SphereRender(s, rio, rdi, t, sc) ==
    MaterialsRender(s.Material, rio, rdi, inverte(rdi), t, sc)

---------------------------------------------------------------------------
(* renderPixel, src/main.go                                                *)

\* tmin = 9999999999.0.  The literal is beyond the integers TLC computes
\* with; the largest of them stands for it, and every t that the inputs of
\* this model produce lies below both.
tmin0 == 2147483647

\* a plausible slip: a tie replaces the earlier object
CloserOrEqual(t, tmin) == t <= tmin

\* t < tmin
Closer(t, tmin) == t < tmin

\* The loop over scene.objects from index i on; called collects the indices
\* of the objects whose render ran.
RECURSIVE renderPixelLoop(_, _, _, _, _, _, _)
renderPixelLoop(sc, ro, rd, i, tmin, res, called) ==
    IF i > Len(sc.objects) THEN [res |-> res, calls |-> called]
    ELSE LET object == sc.objects[i]
             r == isIntersectedByRay(object, ro, rd)
         IN  IF r[1] /\ Closer(r[2], tmin)
             THEN renderPixelLoop(sc, ro, rd, i + 1, r[2],
                                  SphereRender(object, ro, rd, r[2], sc),
                                  Append(called, i))
             ELSE renderPixelLoop(sc, ro, rd, i + 1, tmin, res, called)

\* a plausible slip: a background colour other than the zero value
renderPixelTraceWhite(sc, ro, rd) ==
    renderPixelLoop(sc, ro, rd, 1, tmin0, rgbRepresentation(255, 255, 255), <<>>)

\* renderPixel, with the render calls it made
renderPixelTrace(sc, ro, rd) == renderPixelLoop(sc, ro, rd, 1, tmin0, Black, <<>>)

renderPixel(sc, ro, rd) == renderPixelTrace(sc, ro, rd).res

---------------------------------------------------------------------------
(* Camera, renderFrame and Image.save, src/main.go                         *)

Camera(pos, up, at) == [position |-> pos, up |-> up, at |-> at]

Image(fb, w, h) == [frameBuffer |-> fb, width |-> w, height |-> h]

\* make([]rgbRepresentation, width*height): cells 0 .. width*height-1, zeroed
MakeFrameBuffer(w, h) == [i \in 0..(w * h - 1) |-> Black]

direction(c) ==
    LET dir == Add(c.at, inverte(c.position))
    IN  mul(dir, FDiv(F(1), norme(dir)))

\* rd of the loop body of renderFrame for pixel (px, py)
PixelRd(img, cam, px, py) ==
    LET cosFovy == Lit(66, 100)
        aspect == FDiv(F(img.width), F(img.height))
        horizontal == mul(normalized(cross(direction(cam), cam.up)),
                          FMul(cosFovy, aspect))
        vertical == mul(normalized(cross(horizontal, direction(cam))), cosFovy)
        uvx == FDiv(F(px) + Lit(1, 2), F(img.width))
        uvy == FDiv(F(py) + Lit(1, 2), F(img.height))
    IN  normalized(Add(Add(direction(cam), mul(horizontal, uvx - Lit(1, 2))),
                       mul(vertical, uvy - Lit(1, 2))))

\* a plausible slip: the row stride left out of the index
FrameIndexNoStride(w, px, py) == py + px

\* the cell of pixel (px, py): y*image.width + x
FrameIndex(w, px, py) == py * w + px

\* renderPixel(scene, ro, rd) of the loop body
PixelColor(img, cam, sc, px, py) ==
    renderPixel(sc, cam.position, PixelRd(img, cam, px, py))

\* renderFrame as a function: the frame buffer after the iterations k, k+1,
\* ... of the loop nest (x outside, y inside), run one after the other
RECURSIVE renderFrameFrom(_, _, _, _, _)
renderFrameFrom(fb, img, cam, sc, k) ==
    IF k >= img.width * img.height THEN fb
    ELSE LET px == k \div img.height
             py == k % img.height
         IN  renderFrameFrom(
                 [fb EXCEPT ![FrameIndex(img.width, px, py)] =
                                PixelColor(img, cam, sc, px, py)],
                 img, cam, sc, k + 1)

renderFrame(img, cam, sc) == renderFrameFrom(img.frameBuffer, img, cam, sc, 0)

\* image.frameBuffer[y*image.width+x] = renderPixel(scene, ro, rd); an index
\* outside the slice panics
StorePixel(px, py) ==
    LET idx == FrameIndex(image.width, px, py)
    IN  IF idx \in DOMAIN image.frameBuffer
        THEN /\ image' = [image EXCEPT !.frameBuffer[idx] =
                                PixelColor(image, camera, scene, px, py)]
             /\ writes' = Append(writes, <<px, py, idx>>)
             /\ pc' = pc
        ELSE /\ pc' = "panicIndex"
             /\ UNCHANGED <<image, writes>>

\* for x := 0; x < image.width; x++ {
RenderFrameOuter ==
    /\ pc = "outer"
    /\ IF x < image.width
       THEN pc' = "inner" /\ y' = 0
       ELSE pc' = "save" /\ y' = y
    /\ UNCHANGED <<scene, camera, image, x, writes, png, tasks, sphere, ray,
                   isect, pixel, calls, lightsAlt, pixelAlt>>

\* a plausible slip: the rows of a column taken from the last to the first
RenderFrameInnerFlipped ==
    /\ pc = "inner"
    /\ IF y < image.height
       THEN /\ StorePixel(x, image.height - 1 - y)
            /\ y' = y + 1
            /\ x' = x
       ELSE /\ x' = x + 1
            /\ pc' = "outer"
            /\ UNCHANGED <<image, writes, y>>
    /\ UNCHANGED <<scene, camera, png, tasks, sphere, ray, isect, pixel, calls,
                   lightsAlt, pixelAlt>>

\* for y := 0; y < image.height; y++ { ... } and the x++ that follows it
RenderFrameInner ==
    /\ pc = "inner"
    /\ IF y < image.height
       THEN /\ StorePixel(x, y)
            /\ y' = y + 1
            /\ x' = x
       ELSE /\ x' = x + 1
            /\ pc' = "outer"
            /\ UNCHANGED <<image, writes, y>>
    /\ UNCHANGED <<scene, camera, png, tasks, sphere, ray, isect, pixel, calls,
                   lightsAlt, pixelAlt>>

\* idx := (y*i.width + x)
SaveIdx(i, px, py) == py * i.width + px

\* r, g, b := frameBuffer[idx].r, frameBuffer[idx].b, frameBuffer[idx].g
\* img.Set(x, y, color.RGBA{r, g, b, 255})
SavedPixel(i, px, py) ==
    LET idx == SaveIdx(i, px, py)
        r == i.frameBuffer[idx].r
        g == i.frameBuffer[idx].b
        b == i.frameBuffer[idx].g
    IN  <<r, g, b, 255>>

\* Image.save when os.Create and png.Encode succeed: the PNG holds every
\* pixel set by the two loops (PNG is lossless)
SaveWritten ==
    /\ pc = "save"
    /\ png' = [p \in (0..(image.width - 1)) \X (0..(image.height - 1)) |->
                  SavedPixel(image, p[1], p[2])]
    /\ pc' = "done"
    /\ UNCHANGED <<scene, camera, image, x, y, writes, tasks, sphere, ray,
                   isect, pixel, calls, lightsAlt, pixelAlt>>

\* Image.save returns the error of os.Create or png.Encode; main panics
SaveFailed ==
    /\ pc = "save"
    /\ pc' = "panicSave"
    /\ UNCHANGED <<scene, camera, image, x, y, writes, png, tasks, sphere, ray,
                   isect, pixel, calls, lightsAlt, pixelAlt>>

---------------------------------------------------------------------------
(* Values of the variables a specification does not use                    *)

Zero3 == Vec3f(0, 0, 0)

IdleFrame ==
    /\ camera = "none"
    /\ image = "none"
    /\ x = 0
    /\ y = 0
    /\ writes = <<>>
    /\ png = "none"
    /\ tasks = <<>>

IdleIsect ==
    /\ sphere = "none"
    /\ isect = "none"

IdlePixel ==
    /\ pixel = "none"
    /\ calls = <<>>
    /\ lightsAlt = <<>>
    /\ pixelAlt = "none"

---------------------------------------------------------------------------
(* SpecIsect: Sphere.isIntersectedByRay applied to bounded inputs          *)

MaxCoord == 4
MaxZ == 1
MaxRadius == 2

\* ray origins: whole coordinates
IsectOrigins ==
    { Vec3f(F(i), F(j), F(k)) :
        i \in -MaxCoord..MaxCoord, j \in -MaxCoord..MaxCoord, k \in -MaxZ..MaxZ }

\* ray directions: the 27 vectors over {-1, 0, 1} (the null vector among
\* them), unit vectors off the axes, and directions of length 2 and 1/2
IsectDirections ==
    { Vec3f(F(i), F(j), F(k)) : i \in -1..1, j \in -1..1, k \in -1..1 }
    \cup { Vec3f(Lit(6, 10), Lit(8, 10), 0), Vec3f(-Lit(8, 10), Lit(6, 10), 0),
           Vec3f(0, 0, F(2)), Vec3f(-F(2), 0, 0), Vec3f(0, Lit(1, 2), 0) }

IsectSpheres ==
    { Sphere(F(r), c, Lambert(Vec3f(F(1), 0, 0))) :
        r \in 1..MaxRadius, c \in { Zero3, Vec3f(F(1), 0, -F(1)) } }

InitIsect ==
    /\ pc = "isIntersectedByRay"
    /\ sphere \in IsectSpheres
    /\ ray \in [ro : IsectOrigins, rd : IsectDirections]
    /\ isect = "none"
    /\ scene = "none"
    /\ IdleFrame
    /\ IdlePixel

CallIsIntersectedByRay ==
    /\ pc = "isIntersectedByRay"
    /\ isect' = isIntersectedByRay(sphere, ray.ro, ray.rd)
    /\ pc' = "returned"
    /\ UNCHANGED <<scene, camera, image, x, y, writes, png, tasks, sphere, ray,
                   pixel, calls, lightsAlt, pixelAlt>>

NextIsect == CallIsIntersectedByRay

SpecIsect == InitIsect /\ [][NextIsect]_vars

\* the origin lies outside the sphere
Outside(s, ro) == Dot(RayL(s, ro), RayL(s, ro)) > FMul(s.radius, s.radius)

\* rd is a positive multiple of v
SameSense(rd, v) == cross(rd, v) = Zero3 /\ Dot(rd, v) > 0

C3_AimedAwayMisses ==
    (pc = "returned" /\ Outside(sphere, ray.ro)
        /\ SameSense(ray.rd, RayL(sphere, ray.ro)))
    => isect[1] = FALSE

\* C4: for a unit-length direction aimed at the centre from an origin
\* outside the sphere, the result is a hit at t = distance(origin, C) - r.
C4_AimedAtCentre ==
    (pc = "returned" /\ Dot(ray.rd, ray.rd) = F(1) /\ Outside(sphere, ray.ro)
        /\ SameSense(ray.rd, inverte(RayL(sphere, ray.ro))))
    => isect = <<TRUE, norme(RayL(sphere, ray.ro)) - sphere.radius>>

\* such a ray, off the coordinate axes, was intersected
C4_Witness ==
    /\ pc = "returned"
    /\ Dot(ray.rd, ray.rd) = F(1) /\ ray.rd.x # 0 /\ ray.rd.y # 0
    /\ Outside(sphere, ray.ro)
    /\ SameSense(ray.rd, inverte(RayL(sphere, ray.ro)))
    /\ isect[1] /\ isect[2] > 0

---------------------------------------------------------------------------
(* SpecPixel: renderPixel applied to bounded scenes and rays               *)

MaxObjects == 2
MaxExtraLights == 1

LambertRed == Lambert(Vec3f(F(1), 0, 0))
LambertGreen == Lambert(Vec3f(0, F(1), 0))
LambertWhite == Lambert(Vec3f(F(1), F(1), F(1)))
PhongMat ==
    Phong(Vec3f(Lit(1, 10), Lit(1, 10), Lit(1, 10)), Vec3f(Lit(1, 2), 0, Lit(1, 2)),
          Vec3f(Lit(1, 2), Lit(1, 2), Lit(1, 2)), F(2))

\* the first sphere of populateScene; one of the same geometry and another
\* colour; a nearer Phong sphere on the same axis; a sphere behind the
\* origin of the rays; a Phong sphere off the axis
PixelSpheres ==
    { Sphere(F(1), Vec3f(0, 0, F(8)), LambertRed),
      Sphere(F(1), Vec3f(0, 0, F(8)), LambertGreen),
      Sphere(F(1), Vec3f(0, 0, F(3)), PhongMat),
      Sphere(F(1), Vec3f(0, 0, -F(9)), LambertWhite),
      Sphere(F(1), Vec3f(F(3), 0, -F(1)), PhongMat) }

SeqsUpTo(S, n) == UNION { [1..k -> S] : k \in 0..n }

\* the light of populateScene, and two others
Light1 == Light(Vec3f(F(1), F(1), F(1)), Vec3f(0, F(10), 0))
Light2 == Light(Vec3f(F(1), Lit(1, 2), 0), Vec3f(F(5), F(5), 0))
Light3 == Light(Vec3f(0, F(2), F(1)), Vec3f(-F(4), 0, -F(6)))

Ambiant == Vec3f(Lit(2, 10), Lit(2, 10), Lit(2, 10))

PixelRays ==
    [ro : { Vec3f(0, 0, -F(5)) },
     rd : { Vec3f(0, 0, F(1)), Vec3f(0, 0, -F(1)), Vec3f(0, F(1), 0),
            Vec3f(Lit(6, 10), 0, Lit(8, 10)) }]

WithLights(sc, ls) == Scene(sc.objects, ls, sc.ambiantLight)

InitPixel ==
    /\ pc = "renderPixel"
    /\ \E objs \in SeqsUpTo(PixelSpheres, MaxObjects) :
       \E first \in {Light1, Light2} :
       \E rest \in SeqsUpTo({Light2, Light3}, MaxExtraLights) :
       \E restAlt \in SeqsUpTo({Light3}, MaxExtraLights) :
           /\ scene = Scene(objs, <<first>> \o rest, Ambiant)
           /\ lightsAlt = <<first>> \o restAlt
    /\ ray \in PixelRays
    /\ pixel = "none"
    /\ pixelAlt = "none"
    /\ calls = <<>>
    /\ IdleFrame
    /\ IdleIsect

CallRenderPixel ==
    /\ pc = "renderPixel"
    /\ pixel' = renderPixel(scene, ray.ro, ray.rd)
    /\ calls' = renderPixelTrace(scene, ray.ro, ray.rd).calls
    /\ pixelAlt' = renderPixel(WithLights(scene, lightsAlt), ray.ro, ray.rd)
    /\ pc' = "pixelDone"
    /\ UNCHANGED <<scene, camera, image, x, y, writes, png, tasks, sphere, ray,
                   isect, lightsAlt>>

NextPixel == CallRenderPixel

SpecPixel == InitPixel /\ [][NextPixel]_vars

\* what object i reports for the ray
Hit(i) == isIntersectedByRay(scene.objects[i], ray.ro, ray.rd)[1]
HitT(i) == isIntersectedByRay(scene.objects[i], ray.ro, ray.rd)[2]
Hits == { i \in 1..Len(scene.objects) : Hit(i) }
Shading(i) == SphereRender(scene.objects[i], ray.ro, ray.rd, HitT(i), scene)

\* the earliest-inserted object among those of smallest t
Nearest ==
    CHOOSE i \in Hits :
        \A j \in Hits : HitT(i) < HitT(j) \/ (HitT(i) = HitT(j) /\ i <= j)

\* C2: renderPixel returns the shading of the object that reports a hit
\* with the smallest t, the earlier-inserted one when two share it.
C2_NearestHit ==
    (pc = "pixelDone" /\ Hits # {}) => pixel = Shading(Nearest)

\* two objects of different shading tie on the smallest t; the first won
C2_Witness ==
    /\ pc = "pixelDone"
    /\ Len(scene.objects) = 2
    /\ Hits = {1, 2}
    /\ HitT(1) = HitT(2)
    /\ Shading(1) # Shading(2)
    /\ pixel = Shading(1)

\* a later-inserted object with the smaller t won
C2_WitnessLater ==
    /\ pc = "pixelDone"
    /\ Hits = {1, 2}
    /\ HitT(2) < HitT(1)
    /\ Shading(1) # Shading(2)
    /\ pixel = Shading(2)

\* C5: when no object reports a hit, renderPixel returns {0, 0, 0} and
\* invokes no object's render.
C5_NoHitBlack ==
    (pc = "pixelDone" /\ Hits = {}) =>
        (pixel = rgbRepresentation(0, 0, 0) /\ calls = <<>>)

\* a scene with objects, all missed by the ray
C5_Witness ==
    /\ pc = "pixelDone"
    /\ Len(scene.objects) > 0
    /\ Hits = {}
    /\ pixel = rgbRepresentation(0, 0, 0)

\* C10: two scenes with the same objects and the same first light give the
\* same pixel, whatever lights follow the first.
C10_FirstLightOnly ==
    (pc = "pixelDone" /\ lightsAlt[1] = scene.lights[1]) => pixel = pixelAlt

\* the light lists differ after the first light and a Phong sphere was shaded
C10_Witness ==
    /\ pc = "pixelDone"
    /\ lightsAlt # scene.lights
    /\ Hits # {}
    /\ scene.objects[Nearest].Material.kind = "Phong"
    /\ pixel = pixelAlt
    /\ pixel # rgbRepresentation(0, 0, 0)

\* the same with a Lambert sphere
C10_WitnessLambert ==
    /\ pc = "pixelDone"
    /\ lightsAlt # scene.lights
    /\ Hits # {}
    /\ scene.objects[Nearest].Material.kind = "Lambert"
    /\ pixel = pixelAlt
    /\ pixel # rgbRepresentation(0, 0, 0)

---------------------------------------------------------------------------
(* Spec: main, i.e. renderFrame followed by Image.save                     *)

MaxWidth == 3
MaxHeight == 3

\* the scene built by populateScene
PopulatedScene ==
    Scene(<< Sphere(F(1), Vec3f(0, 0, F(8)), Lambert(Vec3f(F(1), 0, 0))),
             Sphere(Lit(3, 10), Vec3f(F(2), Lit(3, 2), F(4)), Lambert(Vec3f(0, F(1), 0))),
             Sphere(Lit(9, 10), Vec3f(0, -F(1), F(5)), Lambert(Vec3f(0, 0, F(1)))),
             Sphere(Lit(1, 2), Vec3f(-F(2), -F(2), F(5)), LambertWhite) >>,
          << Light1 >>, Ambiant)

\* a wide green sphere behind a Phong sphere
WideScene ==
    Scene(<< Sphere(F(4), Vec3f(0, 0, F(8)), LambertGreen),
             Sphere(F(2), Vec3f(0, 0, F(3)), PhongMat) >>,
          << Light2, Light1 >>, Ambiant)

FrameScenes == { PopulatedScene, WideScene, Scene(<<>>, << Light1 >>, Ambiant) }

\* the camera of main
MainCamera == Camera(Vec3f(0, 0, -F(5)), Vec3f(0, F(1), 0), Vec3f(0, 0, F(5)))

\* that camera, and one looking along another axis
FrameCameras ==
    { MainCamera,
      Camera(Vec3f(-F(5), 0, F(8)), Vec3f(0, F(1), 0), Vec3f(F(5), 0, F(8))) }

InitFrame ==
    /\ scene \in FrameScenes
    /\ camera \in FrameCameras
    /\ \E w \in 1..MaxWidth, h \in 1..MaxHeight :
           image = Image(MakeFrameBuffer(w, h), w, h)
    /\ x = 0
    /\ y = 0
    /\ writes = <<>>
    /\ png = "none"
    /\ IdleIsect
    /\ IdlePixel
    /\ ray = "none"

Init ==
    /\ InitFrame
    /\ pc = "outer"
    /\ tasks = <<>>

Next ==
    \/ RenderFrameOuter
    \/ RenderFrameInner
    \/ SaveWritten
    \/ SaveFailed

Spec == Init /\ [][Next]_vars

Cells == 0..(image.width * image.height - 1)

\* renderFrame has returned
Rendered == pc \in {"save", "done", "panicSave"}

\* C1: one call of renderFrame writes every frame-buffer cell exactly once:
\* each index i in 0..width*height-1 is stored to by exactly one pixel
\* (x, y) with 0 <= x < width, 0 <= y < height and i = y*width + x, and no
\* store falls outside the buffer.
C1_EveryCellOnce ==
    /\ pc # "panicIndex"
    /\ \A k \in 1..Len(writes) :
          /\ writes[k][3] \in Cells
          /\ writes[k][1] \in 0..(image.width - 1)
          /\ writes[k][2] \in 0..(image.height - 1)
          /\ writes[k][3] = writes[k][2] * image.width + writes[k][1]
          /\ \A j \in 1..Len(writes) : writes[j][3] = writes[k][3] => j = k
    /\ Rendered => \A i \in Cells : \E k \in 1..Len(writes) : writes[k][3] = i

\* renderFrame returned for an image that is not square
C1_Witness ==
    /\ pc = "save"
    /\ image.width > 1 /\ image.height > 1 /\ image.width # image.height
    /\ Len(writes) = image.width * image.height

\* C8 as stated: pixels are stored in row-major order, (x, y) before
\* (x', y') whenever y < y', or y = y' and x < x'.
C8_RowMajorOrder ==
    \A j \in 1..Len(writes) : \A k \in 1..Len(writes) :
        (writes[j][2] < writes[k][2]
            \/ (writes[j][2] = writes[k][2] /\ writes[j][1] < writes[k][1]))
        => j < k

\* C8 amended: pixels are stored in column-major order, (x, y) before
\* (x', y') whenever x < x', or x = x' and y < y'.
C8_ColumnMajorOrder ==
    \A j \in 1..Len(writes) : \A k \in 1..Len(writes) :
        (writes[j][1] < writes[k][1]
            \/ (writes[j][1] = writes[k][1] /\ writes[j][2] < writes[k][2]))
        => j < k

\* a frame of several rows and columns was rendered to the end
C8_Witness ==
    /\ pc = "save"
    /\ image.width > 1 /\ image.height > 1
    /\ Len(writes) = image.width * image.height
    /\ writes[2] = <<0, 1, image.width>>

\* C6: every pixel (x, y) of the saved picture is opaque and carries the
\* r, g and b of frame-buffer cell y*width + x in its red, green and blue
\* channels.
C6_ChannelsPreserved ==
    pc = "done" =>
        \A px \in 0..(image.width - 1) : \A py \in 0..(image.height - 1) :
            LET cell == image.frameBuffer[py * image.width + px]
            IN  png[<<px, py>>] = <<cell.r, cell.g, cell.b, 255>>

---------------------------------------------------------------------------
(* SpecPar: the loop body of renderFrame run as one task per pixel         *)

MaxTasks == 6

Pixels(img) == (0..(img.width - 1)) \X (0..(img.height - 1))

InitPar ==
    /\ InitFrame
    /\ image.width * image.height <= MaxTasks
    /\ camera = MainCamera
    /\ pc = "parallel"
    /\ tasks = [p \in Pixels(image) |-> [pc |-> "start", color |-> Black]]

\* lines 214-219 up to the call: the task reads camera, image.width,
\* image.height and scene and keeps the colour in a local
TaskCompute(p) ==
    /\ pc = "parallel"
    /\ tasks[p].pc = "start"
    /\ tasks' = [tasks EXCEPT ![p] =
                    [pc |-> "computed",
                     color |-> PixelColor(image, camera, scene, p[1], p[2])]]
    /\ UNCHANGED <<scene, camera, image, pc, x, y, writes, png, sphere, ray,
                   isect, pixel, calls, lightsAlt, pixelAlt>>

\* line 219: the store into image.frameBuffer[y*image.width+x]
TaskStore(p) ==
    /\ pc = "parallel"
    /\ tasks[p].pc = "computed"
    /\ LET idx == FrameIndex(image.width, p[1], p[2])
       IN  IF idx \in DOMAIN image.frameBuffer
           THEN /\ image' = [image EXCEPT !.frameBuffer[idx] = tasks[p].color]
                /\ writes' = Append(writes, <<p[1], p[2], idx>>)
                /\ tasks' = [tasks EXCEPT ![p].pc = "stored"]
                /\ pc' = pc
           ELSE /\ pc' = "panicIndex"
                /\ UNCHANGED <<image, writes, tasks>>
    /\ UNCHANGED <<scene, camera, x, y, png, sphere, ray, isect, pixel, calls,
                   lightsAlt, pixelAlt>>

NextPar == \E p \in DOMAIN tasks : TaskCompute(p) \/ TaskStore(p)

SpecPar == InitPar /\ [][NextPar]_vars

AllStored == \A p \in DOMAIN tasks : tasks[p].pc = "stored"

\* no two stores hit the same cell, none falls outside the buffer, and once
\* all tasks have stored the frame buffer is that of the sequential loop
ParallelFrame ==
    /\ pc # "panicIndex"
    /\ \A j \in 1..Len(writes) : \A k \in 1..Len(writes) :
          writes[j][3] = writes[k][3] => j = k
    /\ AllStored =>
          image.frameBuffer =
              renderFrame(Image(MakeFrameBuffer(image.width, image.height),
                                image.width, image.height), camera, scene)

\* a step changes no cell but the cell y*width + x of the task (x, y) that
\* stores in that step
OwnCellOnly ==
    \A i \in DOMAIN image.frameBuffer :
        image'.frameBuffer[i] # image.frameBuffer[i] =>
            \E p \in DOMAIN tasks :
                /\ tasks[p].pc = "computed" /\ tasks'[p].pc = "stored"
                /\ i = p[2] * image.width + p[1]
                /\ \A q \in DOMAIN tasks \ {p} : tasks'[q] = tasks[q]

\* C7: run as independent per-pixel tasks in any interleaving, no task
\* modifies the scene or the camera, each task stores only to its own cell
\* y*width + x, no two tasks store to the same cell, and once all tasks
\* have stored, the frame buffer is the one the sequential loop produces.
C7_ParallelSafe ==
    /\ []ParallelFrame
    /\ [][scene' = scene /\ camera' = camera /\ OwnCellOnly]_vars

\* all tasks stored, the last pixel of the sequential order first, into a
\* frame whose cells are not all alike
C7_Witness ==
    /\ pc = "parallel"
    /\ AllStored
    /\ image.width > 1 /\ image.height > 1
    /\ writes[1] = <<image.width - 1, image.height - 1,
                     image.width * image.height - 1>>
    /\ \E i \in Cells : image.frameBuffer[i] # image.frameBuffer[0]

====
